---- MODULE Spec2Model ----
(***************************************************************************)
(* Model of the bilingual two-column PDF generator (bilingual_pdf.py and   *)
(* its fixed-pair predecessor fr_es_pdf.py): the markdown block parser,    *)
(* the re-serialiser, the row alignment of generate_html and the pipeline  *)
(* of main().                                                              *)
(*                                                                         *)
(* A text is a sequence of one-character strings.  A block is a record     *)
(* [type, text] with type in {"h1", "h2", "p"}.                            *)
(***************************************************************************)
EXTENDS Integers, Sequences, FiniteSets, TLC

VARIABLES
    text,                     \* parse_markdown: the argument
    lines,                    \* parse_markdown: text.splitlines()
    idx,                      \* parse_markdown: number of lines consumed by the for loop
    blocks,                   \* parse_markdown: the local list `blocks`
    current_paragraph_lines,  \* parse_markdown: the local accumulator
    markdown,                 \* result of blocks_to_markdown(blocks)
    reparsed,                 \* result of parse_markdown(markdown)
    args,                     \* main: the parsed command line and what it names on disk
    source_blocks,            \* main: source_blocks / generate_html: left_blocks
    target_blocks,            \* main: target_blocks / generate_html: right_blocks
    translate_calls,          \* number of translator.translate calls issued
    files,                    \* the files written by the run
    warned,                   \* the block count mismatch warning was printed
    rows_html,                \* generate_html: the local list `rows_html`
    html,                     \* the document returned by generate_html
    error,                    \* the fatal error that ended the run, or "none"
    target_lang,              \* translate_stub: the argument target_lang
    translated,               \* translate_stub: the local list `translated`
    results,                  \* translate_stub: the lists returned so far, one per call
    pc                        \* position of the run

parser_vars == <<text, lines, idx, blocks, current_paragraph_lines, markdown, reparsed>>
main_vars == <<args, source_blocks, target_blocks, translate_calls, files, warned,
               rows_html, html, error>>
stub_vars == <<target_lang, translated, results>>
vars == <<parser_vars, stub_vars, main_vars, stub_vars, pc>>

-----------------------------------------------------------------------------
(* Bounds *)

MaxLen == 7        \* longest text given to the parser
MaxBlocks == 3     \* longest block sequence given to generate_html
MainMaxLen == 4    \* longest source file content read by main
TransMaxLen == 3   \* longest pre-translated file content read by main

-----------------------------------------------------------------------------
(* Characters and strings *)

LF == "\n"
Alphabet == {"#", " ", "a", LF}
Texts == UNION {[1..n -> Alphabet] : n \in 0..MaxLen}

\* str.isspace for the characters of the alphabet (str.strip and regex \s)
IsSpace(c) == c \in {" ", LF}

Min(a, b) == IF a < b THEN a ELSE b
Max(a, b) == IF a > b THEN a ELSE b

RECURSIVE lstrip(_)
lstrip(s) ==
    IF s = <<>> THEN <<>>
    ELSE IF IsSpace(Head(s)) THEN lstrip(Tail(s)) ELSE s

RECURSIVE rstrip(_)
rstrip(s) ==
    IF s = <<>> THEN <<>>
    ELSE IF IsSpace(s[Len(s)]) THEN rstrip(SubSeq(s, 1, Len(s) - 1)) ELSE s

\* str.strip()
strip(s) == rstrip(lstrip(s))

\* str.splitlines(): a line ends at each line feed; the text after the last
\* line feed is a line only when it is not empty
RECURSIVE SplitFrom(_, _, _)
SplitFrom(s, cur, acc) ==
    IF s = <<>> THEN (IF cur = <<>> THEN acc ELSE Append(acc, cur))
    ELSE IF Head(s) = LF THEN SplitFrom(Tail(s), <<>>, Append(acc, cur))
    ELSE SplitFrom(Tail(s), Append(cur, Head(s)), acc)

splitlines(s) == SplitFrom(s, <<>>, <<>>)

\* sep.join(parts)
RECURSIVE join(_, _)
join(sep, parts) ==
    IF parts = <<>> THEN <<>>
    ELSE IF Len(parts) = 1 THEN parts[1]
    ELSE parts[1] \o sep \o join(sep, Tail(parts))

-----------------------------------------------------------------------------
(* parse_markdown *)

\* number of leading '#' of s
RECURSIVE LeadingHashes(_)
LeadingHashes(s) ==
    IF s = <<>> \/ Head(s) # "#" THEN 0 ELSE 1 + LeadingHashes(Tail(s))

\* the group counts k for which  ^(#{1,2})\s+  can match s: k hashes are
\* available and the character after them is whitespace
HashCountsWrong(s) ==
    {k \in 1..Min(3, LeadingHashes(s)) : k < Len(s) /\ IsSpace(s[k + 1])}

HashCounts(s) ==
    {k \in 1..Min(2, LeadingHashes(s)) : k < Len(s) /\ IsSpace(s[k + 1])}

\* re.match(r'^(#{1,2})\s+(.*)', s): the greedy match takes the largest
\* count; \s+ takes the whole whitespace run; (.*) takes the rest of the line
heading_match(s) ==
    IF HashCounts(s) = {} THEN [matched |-> FALSE, level |-> 0, rest |-> <<>>]
    ELSE LET k == CHOOSE c \in HashCounts(s) : \A d \in HashCounts(s) : d <= c
         IN  [matched |-> TRUE, level |-> k,
              rest |-> lstrip(SubSeq(s, k + 1, Len(s)))]

\* f"h{level}"
HeadingType(level) == IF level = 1 THEN "h1" ELSE "h2"

\* the closure flush_paragraph over the locals (blocks, current_paragraph_lines)
flush_always(st) ==
    [blocks |-> Append(st.blocks, [type |-> "p", text |-> join(<<" ">>, st.cur)]),
     cur    |-> <<>>]

flush_paragraph(st) ==
    IF st.cur # <<>>
    THEN [blocks |-> Append(st.blocks, [type |-> "p", text |-> join(<<" ">>, st.cur)]),
          cur    |-> <<>>]
    ELSE st

\* the three branches of the loop body
IsBlankLineRaw(line) == line = <<>>

IsBlankLine(line) == strip(line) = <<>>
IsHeadingLine(line) == ~IsBlankLine(line) /\ heading_match(strip(line)).matched
IsParagraphLine(line) == ~IsBlankLine(line) /\ ~heading_match(strip(line)).matched

heading_no_flush(st, line) ==
    LET m == heading_match(strip(line))
    IN  [blocks |-> Append(st.blocks,
                           [type |-> HeadingType(m.level), text |-> strip(m.rest)]),
         cur    |-> st.cur]

heading_branch(st, line) ==
    LET m == heading_match(strip(line))
        f == flush_paragraph(st)
    IN  [blocks |-> Append(f.blocks,
                           [type |-> HeadingType(m.level), text |-> strip(m.rest)]),
         cur    |-> f.cur]

\* one iteration of  for line in text.splitlines()
parse_line_unstripped(st, line) ==
    IF IsBlankLine(line) THEN flush_paragraph(st)
    ELSE IF heading_match(strip(line)).matched THEN heading_branch(st, line)
    ELSE [blocks |-> st.blocks, cur |-> Append(st.cur, line)]

parse_line(st, line) ==
    IF IsBlankLine(line) THEN flush_paragraph(st)
    ELSE IF heading_match(strip(line)).matched THEN heading_branch(st, line)
    ELSE [blocks |-> st.blocks, cur |-> Append(st.cur, strip(line))]

RECURSIVE parse_loop(_, _)
parse_loop(st, ls) ==
    IF ls = <<>> THEN st ELSE parse_loop(parse_line(st, Head(ls)), Tail(ls))

parse_markdown(t) ==
    flush_paragraph(parse_loop([blocks |-> <<>>, cur |-> <<>>], splitlines(t))).blocks

-----------------------------------------------------------------------------
(* blocks_to_markdown *)

BlockLine(b) ==
    IF b.type = "h1" THEN <<"#", " ">> \o b.text
    ELSE IF b.type = "h2" THEN <<"#", "#", " ">> \o b.text
    ELSE b.text

RECURSIVE MarkdownLines(_)
MarkdownLines(bs) ==
    IF bs = <<>> THEN <<>>
    ELSE <<BlockLine(Head(bs)), <<>>>> \o MarkdownLines(Tail(bs))

blocks_to_markdown(bs) == join(<<LF>>, MarkdownLines(bs))

-----------------------------------------------------------------------------
(* The parser as a state machine: one action per branch of the loop body,  *)
(* then the final flush, the re-serialisation and the second parse.        *)

ParserState == [blocks |-> blocks, cur |-> current_paragraph_lines]

NoArgs == [list_languages |-> FALSE, input |-> "", output |-> "", source |-> "fr",
           target |-> "es", translation |-> FALSE, save_translation |-> FALSE,
           html_only |-> FALSE]
NoHtml == [source_lang |-> "", left_label |-> "", right_label |-> "", rows |-> <<>>]

\* the variables of main() and generate_html before either has run
MainIdle ==
    /\ args = NoArgs
    /\ source_blocks = <<>>
    /\ target_blocks = <<>>
    /\ translate_calls = 0
    /\ files = {}
    /\ warned = FALSE
    /\ rows_html = <<>>
    /\ html = NoHtml
    /\ error = "none"

\* the variables of translate_stub before it has run
StubIdle ==
    /\ target_lang = "es"
    /\ translated = <<>>
    /\ results = <<>>

ParserIdle ==
    /\ text = <<>>
    /\ lines = <<>>
    /\ idx = 0
    /\ blocks = <<>>
    /\ current_paragraph_lines = <<>>
    /\ markdown = <<>>
    /\ reparsed = <<>>

InitParse ==
    /\ text \in Texts
    /\ lines = splitlines(text)
    /\ idx = 0
    /\ blocks = <<>>
    /\ current_paragraph_lines = <<>>
    /\ markdown = <<>>
    /\ reparsed = <<>>
    /\ MainIdle
    /\ StubIdle
    /\ pc = "loop"

LoopStep(line) ==
    /\ idx' = idx + 1
    /\ blocks' = parse_line(ParserState, line).blocks
    /\ current_paragraph_lines' = parse_line(ParserState, line).cur
    /\ UNCHANGED <<text, lines, markdown, reparsed, pc, main_vars, stub_vars>>

BlankLine ==
    /\ pc = "loop" /\ idx < Len(lines)
    /\ IsBlankLine(lines[idx + 1])
    /\ LoopStep(lines[idx + 1])

HeadingLine ==
    /\ pc = "loop" /\ idx < Len(lines)
    /\ IsHeadingLine(lines[idx + 1])
    /\ LoopStep(lines[idx + 1])

ParagraphLine ==
    /\ pc = "loop" /\ idx < Len(lines)
    /\ IsParagraphLine(lines[idx + 1])
    /\ LoopStep(lines[idx + 1])

FinalFlush ==
    /\ pc = "loop" /\ idx = Len(lines)
    /\ blocks' = flush_paragraph(ParserState).blocks
    /\ current_paragraph_lines' = flush_paragraph(ParserState).cur
    /\ pc' = "parsed"
    /\ UNCHANGED <<text, lines, idx, markdown, reparsed, main_vars, stub_vars>>

Serialize ==
    /\ pc = "parsed"
    /\ markdown' = blocks_to_markdown(blocks)
    /\ pc' = "serialized"
    /\ UNCHANGED <<text, lines, idx, blocks, current_paragraph_lines, reparsed, main_vars, stub_vars>>

Reparse ==
    /\ pc = "serialized"
    /\ reparsed' = parse_markdown(markdown)
    /\ pc' = "reparsed"
    /\ UNCHANGED <<text, lines, idx, blocks, current_paragraph_lines, markdown, main_vars, stub_vars>>

NextParse ==
    \/ BlankLine
    \/ HeadingLine
    \/ ParagraphLine
    \/ FinalFlush
    \/ Serialize
    \/ Reparse

SpecParse == InitParse /\ [][NextParse]_vars

-----------------------------------------------------------------------------
(* generate_html *)

\* _inline_markdown rewrites links, bold and italic markers; the texts of
\* the model hold none of  [ * _  so every re.sub leaves the text as it is
_inline_markdown(t) == t

\* f"<{tag}>{...}</{tag}>" as a sequence of tokens; never the empty string
_html_cell(b) ==
    LET tag == IF b.type \in {"h1", "h2"} THEN b.type ELSE "p"
    IN  <<"<", tag, ">">> \o _inline_markdown(b.text) \o <<"</", tag, ">">>

\* len(left_blocks) != len(right_blocks)
count_mismatch_left_longer(left, right) == Len(left) > Len(right)

count_mismatch(left, right) == Len(left) # Len(right)

\* n = max(len(left_blocks), len(right_blocks))
row_count_min(left, right) == Min(Len(left), Len(right))

row_count(left, right) == Max(Len(left), Len(right))

\* the row of the i-th iteration (i counts from 1); "" is the padding cell
row_html(left, right, i) ==
    [left  |-> IF i <= Len(left) THEN _html_cell(left[i]) ELSE <<>>,
     right |-> IF i <= Len(right) THEN _html_cell(right[i]) ELSE <<>>]

generate_rows(left, right) ==
    [i \in 1..row_count(left, right) |-> row_html(left, right, i)]

\* HTML_TEMPLATE.format(...): the parts of the document that vary
format_html(rows, left_label, right_label, source_lang) ==
    [source_lang |-> source_lang, left_label |-> left_label,
     right_label |-> right_label, rows |-> rows]

\* language codes of the model; the collaborator supports the first two
Langs == {"fr", "es", "xx"}
LANG_LABELS == [c \in {"fr", "es"} |-> IF c = "fr" THEN "Francais" ELSE "Espanol"]
upper(code) == IF code = "fr" THEN "FR" ELSE IF code = "es" THEN "ES" ELSE "XX"
lang_label(code) == IF code \in DOMAIN LANG_LABELS THEN LANG_LABELS[code] ELSE upper(code)

(* generate_html as a state machine of its own, on any two block sequences *)

BlockPool == {[type |-> "h1", text |-> <<"a">>],
              [type |-> "h2", text |-> <<"a">>],
              [type |-> "p",  text |-> <<"a">>]}
BlockSeqs == UNION {[1..n -> BlockPool] : n \in 0..MaxBlocks}

InitAlign ==
    /\ ParserIdle
    /\ StubIdle
    /\ args = NoArgs
    /\ source_blocks \in BlockSeqs
    /\ target_blocks \in BlockSeqs
    /\ translate_calls = 0
    /\ files = {}
    /\ warned = FALSE
    /\ rows_html = <<>>
    /\ html = NoHtml
    /\ error = "none"
    /\ pc = "generate_html"

\* the length test and the warning
AlignWarn ==
    /\ pc = "generate_html"
    /\ warned' = count_mismatch(source_blocks, target_blocks)
    /\ rows_html' = <<>>
    /\ pc' = "rows"
    /\ UNCHANGED <<parser_vars, stub_vars, args, source_blocks, target_blocks, translate_calls,
                   files, html, error>>

\* one iteration of  for i in range(n)
AlignRow ==
    /\ pc = "rows"
    /\ Len(rows_html) < row_count(source_blocks, target_blocks)
    /\ rows_html' = Append(rows_html,
                           row_html(source_blocks, target_blocks, Len(rows_html) + 1))
    /\ UNCHANGED <<parser_vars, stub_vars, args, source_blocks, target_blocks, translate_calls,
                   files, warned, html, error, pc>>

AlignFormat ==
    /\ pc = "rows"
    /\ Len(rows_html) = row_count(source_blocks, target_blocks)
    /\ html' = format_html(rows_html, lang_label(args.source), lang_label(args.target),
                           args.source)
    /\ pc' = "html_done"
    /\ UNCHANGED <<parser_vars, stub_vars, args, source_blocks, target_blocks, translate_calls,
                   files, warned, rows_html, error>>

NextAlign ==
    \/ AlignWarn
    \/ AlignRow
    \/ AlignFormat

SpecAlign == InitAlign /\ [][NextAlign]_vars

-----------------------------------------------------------------------------
(* main() of bilingual_pdf.py *)

\* args.input: no argument, a name without .md, a .md name that is no file,
\* a .md file that exists.  args.output: not given, or a name by its extension
Inputs == {"", "doc.txt", "missing.md", "doc.md"}
Outputs == {"", "out.pdf", "out.html"}

ArgSets == [list_languages : BOOLEAN, input : Inputs, output : Outputs,
            source : {"fr", "xx"}, target : {"es", "xx"},
            translation : BOOLEAN, save_translation : BOOLEAN, html_only : BOOLEAN]

MainTexts == UNION {[1..n -> Alphabet] : n \in 0..MainMaxLen}
TranslationTexts == UNION {[1..n -> Alphabet] : n \in 0..TransMaxLen}

\* what translator.translate may return for a block
TranslatedTexts == {<<"a">>, <<"#">>}

\* set(supported.values()) of the collaborator
valid_codes == {"fr", "es"}

\* the list `bad` of _validate_lang_codes
_validate_source_only(source, target) ==
    IF source \notin valid_codes THEN <<source>> ELSE <<>>

_validate_lang_codes(source, target) ==
    (IF source \notin valid_codes THEN <<source>> ELSE <<>>)
        \o (IF target \notin valid_codes THEN <<target>> ELSE <<>>)

\* {**b, "text": translated_text}
translated_block_as_paragraph(b, tt) == [type |-> "p", text |-> tt]

translated_block(b, tt) == [type |-> b.type, text |-> tt]

InitMain ==
    /\ ParserIdle
    /\ StubIdle
    /\ args \in ArgSets
    /\ source_blocks = <<>>
    /\ target_blocks = <<>>
    /\ translate_calls = 0
    /\ files = {}
    /\ warned = FALSE
    /\ rows_html = <<>>
    /\ html = NoHtml
    /\ error = "none"
    /\ pc = "start"

Abort(e) ==
    /\ error' = e
    /\ pc' = "aborted"

\* --list-languages: print the table and sys.exit(0)
ListLanguages ==
    /\ pc = "start"
    /\ args.list_languages
    /\ pc' = "exit0"
    /\ UNCHANGED <<parser_vars, main_vars, stub_vars>>

ValidateInputFail ==
    /\ pc = "start"
    /\ ~args.list_languages
    /\ args.input # "doc.md"
    /\ Abort(IF args.input = "" THEN "input_required"
             ELSE IF args.input = "doc.txt" THEN "input_extension"
             ELSE "input_not_found")
    /\ UNCHANGED <<parser_vars, stub_vars, args, source_blocks, target_blocks, translate_calls,
                   files, warned, rows_html, html>>

ValidateInputOk ==
    /\ pc = "start"
    /\ ~args.list_languages
    /\ args.input = "doc.md"
    /\ pc' = "validate_output"
    /\ UNCHANGED <<parser_vars, main_vars, stub_vars>>

expected_ext == IF args.html_only THEN "out.html" ELSE "out.pdf"

ValidateOutputFail ==
    /\ pc = "validate_output"
    /\ args.output # "" /\ args.output # expected_ext
    /\ Abort("output_extension")
    /\ UNCHANGED <<parser_vars, stub_vars, args, source_blocks, target_blocks, translate_calls,
                   files, warned, rows_html, html>>

ValidateOutputOk ==
    /\ pc = "validate_output"
    /\ (args.output = "" \/ args.output = expected_ext)
    /\ pc' = "read_parse"
    /\ UNCHANGED <<parser_vars, main_vars, stub_vars>>

\* read & parse source
ReadParse ==
    /\ pc = "read_parse"
    /\ \E t \in MainTexts : source_blocks' = parse_markdown(t)
    /\ pc' = "translate"
    /\ UNCHANGED <<parser_vars, stub_vars, args, target_blocks, translate_calls, files, warned,
                   rows_html, html, error>>

\* --translation: load_translated_file
LoadTranslation ==
    /\ pc = "translate"
    /\ args.translation
    /\ \E t \in TranslationTexts : target_blocks' = parse_markdown(t)
    /\ pc' = "save_translation"
    /\ UNCHANGED <<parser_vars, stub_vars, args, source_blocks, translate_calls, files, warned,
                   rows_html, html, error>>

\* open() of the translation file raises
LoadTranslationFail ==
    /\ pc = "translate"
    /\ args.translation
    /\ Abort("translation_file_unreadable")
    /\ UNCHANGED <<parser_vars, stub_vars, args, source_blocks, target_blocks, translate_calls,
                   files, warned, rows_html, html>>

\* _validate_lang_codes prints the bad codes and calls sys.exit(1)
ValidateLangFail ==
    /\ pc = "translate"
    /\ ~args.translation
    /\ _validate_lang_codes(args.source, args.target) # <<>>
    /\ Abort("unsupported_language")
    /\ UNCHANGED <<parser_vars, stub_vars, args, source_blocks, target_blocks, translate_calls,
                   files, warned, rows_html, html>>

ValidateLangOk ==
    /\ pc = "translate"
    /\ ~args.translation
    /\ _validate_lang_codes(args.source, args.target) = <<>>
    /\ target_blocks' = <<>>
    /\ pc' = "translating"
    /\ UNCHANGED <<parser_vars, stub_vars, args, source_blocks, translate_calls, files, warned,
                   rows_html, html, error>>

\* one iteration of translate_with_google:  {**b, "text": translated_text}
TranslateBlock ==
    /\ pc = "translating"
    /\ Len(target_blocks) < Len(source_blocks)
    /\ translate_calls' = translate_calls + 1
    /\ \E tt \in TranslatedTexts :
         target_blocks' = Append(target_blocks,
             translated_block(source_blocks[Len(target_blocks) + 1], tt))
    /\ UNCHANGED <<parser_vars, stub_vars, args, source_blocks, files, warned, rows_html, html,
                   error, pc>>

\* translator.translate raises
TranslateBlockFail ==
    /\ pc = "translating"
    /\ Len(target_blocks) < Len(source_blocks)
    /\ translate_calls' = translate_calls + 1
    /\ Abort("translation_failed")
    /\ UNCHANGED <<parser_vars, stub_vars, args, source_blocks, target_blocks, files, warned,
                   rows_html, html>>

TranslateReturn ==
    /\ pc = "translating"
    /\ Len(target_blocks) = Len(source_blocks)
    /\ pc' = "save_translation"
    /\ UNCHANGED <<parser_vars, main_vars, stub_vars>>

\* save translation if requested
SaveTranslation ==
    /\ pc = "save_translation"
    /\ args.save_translation /\ ~args.translation
    /\ files' = files \cup {[kind |-> "translation_md",
                             content |-> blocks_to_markdown(target_blocks)]}
    /\ pc' = "generate_html"
    /\ UNCHANGED <<parser_vars, stub_vars, args, source_blocks, target_blocks, translate_calls,
                   warned, rows_html, html, error>>

SkipSaveTranslation ==
    /\ pc = "save_translation"
    /\ ~(args.save_translation /\ ~args.translation)
    /\ pc' = "generate_html"
    /\ UNCHANGED <<parser_vars, main_vars, stub_vars>>

\* the whole call of generate_html
GenerateHtml ==
    /\ pc = "generate_html"
    /\ warned' = count_mismatch(source_blocks, target_blocks)
    /\ rows_html' = generate_rows(source_blocks, target_blocks)
    /\ html' = format_html(generate_rows(source_blocks, target_blocks),
                           lang_label(args.source), lang_label(args.target), args.source)
    /\ pc' = "output"
    /\ UNCHANGED <<parser_vars, stub_vars, args, source_blocks, target_blocks, translate_calls,
                   files, error>>

\* --html-only: write the document itself
WriteHtmlEarly ==
    /\ pc = "generate_html"
    /\ args.html_only
    /\ files' = files \cup {[kind |-> "html", content |-> html]}
    /\ pc' = "done"
    /\ UNCHANGED <<parser_vars, stub_vars, args, source_blocks, target_blocks,
                   translate_calls, warned, rows_html, html, error>>

WriteHtml ==
    /\ pc = "output"
    /\ args.html_only
    /\ files' = files \cup {[kind |-> "html", content |-> html]}
    /\ pc' = "done"
    /\ UNCHANGED <<parser_vars, stub_vars, args, source_blocks, target_blocks, translate_calls,
                   warned, rows_html, html, error>>

\* html_to_pdf: the rendering collaborator writes the PDF of the document
HtmlToPdf ==
    /\ pc = "output"
    /\ ~args.html_only
    /\ files' = files \cup {[kind |-> "pdf", content |-> html]}
    /\ pc' = "done"
    /\ UNCHANGED <<parser_vars, stub_vars, args, source_blocks, target_blocks, translate_calls,
                   warned, rows_html, html, error>>

\* html_to_pdf: importing weasyprint or write_pdf raises
HtmlToPdfFail ==
    /\ pc = "output"
    /\ ~args.html_only
    /\ Abort("render_failed")
    /\ UNCHANGED <<parser_vars, stub_vars, args, source_blocks, target_blocks, translate_calls,
                   files, warned, rows_html, html>>

NextMain ==
    \/ ListLanguages
    \/ ValidateInputFail
    \/ ValidateInputOk
    \/ ValidateOutputFail
    \/ ValidateOutputOk
    \/ ReadParse
    \/ LoadTranslation
    \/ LoadTranslationFail
    \/ ValidateLangFail
    \/ ValidateLangOk
    \/ TranslateBlock
    \/ TranslateBlockFail
    \/ TranslateReturn
    \/ SaveTranslation
    \/ SkipSaveTranslation
    \/ GenerateHtml
    \/ WriteHtml
    \/ HtmlToPdf
    \/ HtmlToPdfFail

SpecMain == InitMain /\ [][NextMain]_vars

-----------------------------------------------------------------------------
(* translate_stub of fr_es_pdf.py *)

\* f"[{label}] {b['text']}" with label = target_lang.upper()
stub_text(lang, t) == <<"[", upper(lang), "]", " ">> \o t

\* one iteration of  for b in blocks  over the pair (blocks, translated):
\* {**b, "text": ...} is a new dict, the block of the input list is left alone
stub_step_in_place(st, i, lang) ==
    [blocks     |-> [st.blocks EXCEPT ![i].text = stub_text(lang, @)],
     translated |-> Append(st.translated,
                           [type |-> st.blocks[i].type,
                            text |-> stub_text(lang, st.blocks[i].text)])]

stub_step(st, i, lang) ==
    [blocks     |-> st.blocks,
     translated |-> Append(st.translated,
                           [type |-> st.blocks[i].type,
                            text |-> stub_text(lang, st.blocks[i].text)])]

RECURSIVE stub_loop(_, _, _)
stub_loop(st, i, lang) ==
    IF i > Len(st.blocks) THEN st ELSE stub_loop(stub_step(st, i, lang), i + 1, lang)

\* the whole call: the returned list and the caller's list after the call
translate_stub(bs, lang) == stub_loop([blocks |-> bs, translated |-> <<>>], 1, lang)

\* blocks given to translate_stub; one text already carries a stub prefix
StubPool == BlockPool \cup {[type |-> "p", text |-> <<"[", "ES", "]", " ", "a">>]}
StubSeqs == UNION {[1..n -> StubPool] : n \in 0..MaxBlocks}

InitStub ==
    /\ ParserIdle
    /\ args = NoArgs
    /\ source_blocks \in StubSeqs
    /\ target_blocks = <<>>
    /\ translate_calls = 0
    /\ files = {}
    /\ warned = FALSE
    /\ rows_html = <<>>
    /\ html = NoHtml
    /\ error = "none"
    /\ target_lang \in {"fr", "es"}
    /\ translated = <<>>
    /\ results = <<>>
    /\ pc = "stub_loop"

StubBlock ==
    /\ pc = "stub_loop"
    /\ Len(translated) < Len(source_blocks)
    /\ LET st == stub_step([blocks |-> source_blocks, translated |-> translated],
                           Len(translated) + 1, target_lang)
       IN  /\ source_blocks' = st.blocks
           /\ translated' = st.translated
    /\ UNCHANGED <<parser_vars, args, target_blocks, translate_calls, files, warned,
                   rows_html, html, error, target_lang, results, pc>>

\* return translated
StubReturn ==
    /\ pc = "stub_loop"
    /\ Len(translated) = Len(source_blocks)
    /\ results' = Append(results, translated)
    /\ pc' = "stub_returned"
    /\ UNCHANGED <<parser_vars, main_vars, target_lang, translated>>

\* the caller calls translate_stub again with the same arguments
StubCallAgain ==
    /\ pc = "stub_returned"
    /\ Len(results) < 2
    /\ translated' = <<>>
    /\ pc' = "stub_loop"
    /\ UNCHANGED <<parser_vars, main_vars, target_lang, results>>

NextStub ==
    \/ StubBlock
    \/ StubReturn
    \/ StubCallAgain

SpecStub == InitStub /\ [][NextStub]_vars

-----------------------------------------------------------------------------
(* main() of fr_es_pdf.py: no validation of the arguments, a --stub mode,  *)
(* no --save-translation.                                                  *)

FeArgSets == [input : {"missing.md", "doc.md"}, output : {"", "out.pdf"},
              direction : {"fr-es", "es-fr"},
              translation : BOOLEAN, stub : BOOLEAN, html_only : BOOLEAN]

\* source_lang, target_lang = args.direction.split("-")
fe_source_lang == IF args.direction = "fr-es" THEN "fr" ELSE "es"
fe_target_lang == IF args.direction = "fr-es" THEN "es" ELSE "fr"

\* _html_cell of fr_es_pdf.py: the text goes into the cell as it is
fe_html_cell(b) ==
    LET tag == IF b.type \in {"h1", "h2"} THEN b.type ELSE "p"
    IN  <<"<", tag, ">">> \o b.text \o <<"</", tag, ">">>

fe_row_html(left, right, i) ==
    [left  |-> IF i <= Len(left) THEN fe_html_cell(left[i]) ELSE <<>>,
     right |-> IF i <= Len(right) THEN fe_html_cell(right[i]) ELSE <<>>]

fe_generate_rows(left, right) ==
    [i \in 1..Max(Len(left), Len(right)) |-> fe_row_html(left, right, i)]

InitFrEs ==
    /\ ParserIdle
    /\ StubIdle
    /\ args \in FeArgSets
    /\ source_blocks = <<>>
    /\ target_blocks = <<>>
    /\ translate_calls = 0
    /\ files = {}
    /\ warned = FALSE
    /\ rows_html = <<>>
    /\ html = NoHtml
    /\ error = "none"
    /\ pc = "fe_read_parse"

\* read & parse source
FeReadParse ==
    /\ pc = "fe_read_parse"
    /\ args.input = "doc.md"
    /\ \E t \in MainTexts : source_blocks' = parse_markdown(t)
    /\ pc' = "fe_translate"
    /\ UNCHANGED <<parser_vars, stub_vars, args, target_blocks, translate_calls, files,
                   warned, rows_html, html, error>>

\* open(args.input) raises
FeReadFail ==
    /\ pc = "fe_read_parse"
    /\ args.input # "doc.md"
    /\ Abort("input_not_found")
    /\ UNCHANGED <<parser_vars, stub_vars, args, source_blocks, target_blocks,
                   translate_calls, files, warned, rows_html, html>>

FeLoadTranslation ==
    /\ pc = "fe_translate"
    /\ args.translation
    /\ \E t \in TranslationTexts : target_blocks' = parse_markdown(t)
    /\ pc' = "fe_generate_html"
    /\ UNCHANGED <<parser_vars, stub_vars, args, source_blocks, translate_calls, files,
                   warned, rows_html, html, error>>

FeLoadTranslationFail ==
    /\ pc = "fe_translate"
    /\ args.translation
    /\ Abort("translation_file_unreadable")
    /\ UNCHANGED <<parser_vars, stub_vars, args, source_blocks, target_blocks,
                   translate_calls, files, warned, rows_html, html>>

\* --stub: the whole call of translate_stub
FeStub ==
    /\ pc = "fe_translate"
    /\ ~args.translation /\ args.stub
    /\ source_blocks' = translate_stub(source_blocks, fe_target_lang).blocks
    /\ target_blocks' = translate_stub(source_blocks, fe_target_lang).translated
    /\ pc' = "fe_generate_html"
    /\ UNCHANGED <<parser_vars, stub_vars, args, translate_calls, files, warned,
                   rows_html, html, error>>

\* translate_with_google is entered
FeTranslateStart ==
    /\ pc = "fe_translate"
    /\ ~args.translation /\ ~args.stub
    /\ target_blocks' = <<>>
    /\ pc' = "fe_translating"
    /\ UNCHANGED <<parser_vars, stub_vars, args, source_blocks, translate_calls, files,
                   warned, rows_html, html, error>>

FeTranslateBlock ==
    /\ pc = "fe_translating"
    /\ Len(target_blocks) < Len(source_blocks)
    /\ translate_calls' = translate_calls + 1
    /\ \E tt \in TranslatedTexts :
         target_blocks' = Append(target_blocks,
             translated_block(source_blocks[Len(target_blocks) + 1], tt))
    /\ UNCHANGED <<parser_vars, stub_vars, args, source_blocks, files, warned,
                   rows_html, html, error, pc>>

FeTranslateBlockFail ==
    /\ pc = "fe_translating"
    /\ Len(target_blocks) < Len(source_blocks)
    /\ translate_calls' = translate_calls + 1
    /\ Abort("translation_failed")
    /\ UNCHANGED <<parser_vars, stub_vars, args, source_blocks, target_blocks, files,
                   warned, rows_html, html>>

FeTranslateReturn ==
    /\ pc = "fe_translating"
    /\ Len(target_blocks) = Len(source_blocks)
    /\ pc' = "fe_generate_html"
    /\ UNCHANGED <<parser_vars, main_vars, stub_vars>>

\* the whole call of generate_html, labels by LANG_LABELS[...]
FeGenerateHtml ==
    /\ pc = "fe_generate_html"
    /\ warned' = count_mismatch(source_blocks, target_blocks)
    /\ rows_html' = fe_generate_rows(source_blocks, target_blocks)
    /\ html' = [source_lang |-> "fr",
                left_label |-> LANG_LABELS[fe_source_lang],
                right_label |-> LANG_LABELS[fe_target_lang],
                rows |-> fe_generate_rows(source_blocks, target_blocks)]
    /\ pc' = "fe_output"
    /\ UNCHANGED <<parser_vars, stub_vars, args, source_blocks, target_blocks,
                   translate_calls, files, error>>

FeWriteHtml ==
    /\ pc = "fe_output"
    /\ args.html_only
    /\ files' = files \cup {[kind |-> "html", content |-> html]}
    /\ pc' = "done"
    /\ UNCHANGED <<parser_vars, stub_vars, args, source_blocks, target_blocks,
                   translate_calls, warned, rows_html, html, error>>

FeHtmlToPdf ==
    /\ pc = "fe_output"
    /\ ~args.html_only
    /\ files' = files \cup {[kind |-> "pdf", content |-> html]}
    /\ pc' = "done"
    /\ UNCHANGED <<parser_vars, stub_vars, args, source_blocks, target_blocks,
                   translate_calls, warned, rows_html, html, error>>

FeHtmlToPdfFail ==
    /\ pc = "fe_output"
    /\ ~args.html_only
    /\ Abort("render_failed")
    /\ UNCHANGED <<parser_vars, stub_vars, args, source_blocks, target_blocks,
                   translate_calls, files, warned, rows_html, html>>

NextFrEs ==
    \/ FeReadParse
    \/ FeReadFail
    \/ FeLoadTranslation
    \/ FeLoadTranslationFail
    \/ FeStub
    \/ FeTranslateStart
    \/ FeTranslateBlock
    \/ FeTranslateBlockFail
    \/ FeTranslateReturn
    \/ FeGenerateHtml
    \/ FeWriteHtml
    \/ FeHtmlToPdf
    \/ FeHtmlToPdfFail

SpecFrEs == InitFrEs /\ [][NextFrEs]_vars

(* Both programs: a run is a run of one main() or of the other *)

InitPipelines == InitMain \/ InitFrEs

NextPipelines == NextMain \/ NextFrEs

SpecPipelines == InitPipelines /\ [][NextPipelines]_vars

-----------------------------------------------------------------------------
(* Vocabulary of the parser properties, stated on the lines themselves and *)
(* independently of the loop that consumes them.                           *)

Stripped(j) == strip(lines[j])
Blank(j) == \A k \in 1..Len(lines[j]) : IsSpace(lines[j][k])

\* one '#', whitespace, a remainder
Shape1(s) == Len(s) >= 3 /\ s[1] = "#" /\ IsSpace(s[2])
\* two '#', whitespace, a remainder
Shape2(s) == Len(s) >= 4 /\ s[1] = "#" /\ s[2] = "#" /\ IsSpace(s[3])
HeadingShape(s) == Shape1(s) \/ Shape2(s)
AfterMarker(s, k) == strip(SubSeq(s, k + 1, Len(s)))

HeadingAt(j) == HeadingShape(Stripped(j))
ParaAt(j) == ~Blank(j) /\ ~HeadingAt(j)

\* the trimmed lines a..b joined with single spaces
RECURSIVE JoinedLines(_, _)
JoinedLines(a, b) ==
    IF a > b THEN <<>>
    ELSE IF a = b THEN Stripped(a)
    ELSE Stripped(a) \o <<" ">> \o JoinedLines(a + 1, b)

\* a..b is a maximal run of paragraph lines within the first n lines
MaximalRun(a, b, n) ==
    /\ 1 <= a /\ a <= b /\ b <= n
    /\ \A j \in a..b : ParaAt(j)
    /\ (a = 1 \/ ~ParaAt(a - 1))
    /\ (b = n \/ ~ParaAt(b + 1))

RunEnd(a, n) == CHOOSE b \in a..n : MaximalRun(a, b, n)

\* first lines of the units (heading lines, maximal paragraph runs) among the
\* first n lines; a run that reaches line n is still pending when `pending`
UnitStarts(n, pending) ==
    {j \in 1..n :
        \/ HeadingAt(j)
        \/ \E b \in j..n : MaximalRun(j, b, n) /\ (pending => b < n)}

UnitBlock(j, n) ==
    IF HeadingAt(j)
    THEN [type |-> IF Shape1(Stripped(j)) THEN "h1" ELSE "h2",
          text |-> AfterMarker(Stripped(j), IF Shape1(Stripped(j)) THEN 1 ELSE 2)]
    ELSE [type |-> "p", text |-> JoinedLines(j, RunEnd(j, n))]

RECURSIVE UnitBlocks(_, _)
UnitBlocks(S, n) ==
    IF S = {} THEN <<>>
    ELSE LET j == CHOOSE x \in S : \A y \in S : x <= y
         IN  <<UnitBlock(j, n)>> \o UnitBlocks(S \ {j}, n)

\* the trimmed lines of the run of paragraph lines that ends at line n
RECURSIVE PendingLines(_)
PendingLines(n) ==
    IF n = 0 \/ ~ParaAt(n) THEN <<>> ELSE Append(PendingLines(n - 1), Stripped(n))

Parsed == pc \in {"parsed", "serialized", "reparsed"}
BlockTypes == [i \in 1..Len(blocks) |-> blocks[i].type]

-----------------------------------------------------------------------------
(* C2: parsing, re-serialising with blocks_to_markdown and parsing again   *)
(* yields the block sequence of the first parse.                           *)
C2_RoundTrip == pc = "reparsed" => reparsed = blocks

(* C6 as stated: no block text begins with '#', and every paragraph text   *)
(* is the join of consecutive non-blank lines.                             *)
NoBlankLineSpanned(b) ==
    /\ b.text # <<>>
    /\ \A k \in 1..Len(b.text) : b.text[k] # LF
    /\ b.type = "p" =>
         \E a \in 1..Len(lines) : \E c \in a..Len(lines) :
            /\ \A j \in a..c : ~Blank(j)
            /\ b.text = JoinedLines(a, c)

C7_NoHeadingOneParagraph ==
    (Parsed /\ \A j \in 1..Len(lines) : LeadingHashes(Stripped(j)) = 0)
        => blocks = <<[type |-> "p", text |-> JoinedLines(1, Len(lines))]>>

(* C7 amended: when no line is a heading and the non-blank lines are one   *)
(* run of consecutive lines (at least one), the result is exactly one      *)
(* paragraph block holding those lines, trimmed and joined with single     *)
(* spaces in input order.                                                  *)
C7_OneRunOneParagraph ==
    \A a \in 1..Len(lines) : \A b \in a..Len(lines) :
        (/\ Parsed
         /\ \A j \in 1..Len(lines) : IF j \in a..b THEN ParaAt(j) ELSE Blank(j))
            => blocks = <<[type |-> "p", text |-> JoinedLines(a, b)]>>

C7_Witness ==
    /\ pc = "parsed"
    /\ Len(lines) >= 3
    /\ \A j \in 1..Len(lines) : ParaAt(j)
    /\ \E j \in 1..Len(lines) : lines[j] # Stripped(j)
    /\ Len(blocks) = 1

(* C8: an input of blank lines only (or no line at all) parses to the      *)
(* empty sequence; a flush on an empty accumulator appends nothing; no     *)
(* paragraph block has empty text.                                         *)
C8_BlankInputNoBlocks ==
    /\ [](/\ (Parsed /\ \A j \in 1..Len(lines) : Blank(j)) => blocks = <<>>
          /\ \A i \in 1..Len(blocks) : blocks[i].text # <<>>)
    /\ [][(/\ current_paragraph_lines = <<>>
           /\ \/ pc = "loop" /\ idx = Len(lines)
              \/ pc = "loop" /\ idx < Len(lines) /\ Blank(idx + 1))
          => blocks' = blocks /\ current_paragraph_lines' = <<>>]_vars

C8_Witness ==
    /\ pc = "parsed"
    /\ Len(lines) >= 3
    /\ \A j \in 1..Len(lines) : Blank(j)
    /\ \E j \in 1..Len(lines) : lines[j] # <<>>
    /\ blocks = <<>>

(* C9: a trimmed line is emitted as a heading block exactly when it is one *)
(* or two '#', whitespace and a remainder (h1 for one, h2 for two, text    *)
(* the trimmed remainder); a line that starts with three or more '#' is    *)
(* appended to the paragraph accumulator and emits nothing.                *)
EmitsHeading ==
    /\ Len(blocks') > Len(blocks)
    /\ blocks'[Len(blocks')].type \in {"h1", "h2"}

C9_TwoHeadingLevels ==
    [][(pc = "loop" /\ idx < Len(lines)) =>
        LET s == Stripped(idx + 1) IN
        /\ EmitsHeading <=> HeadingShape(s)
        /\ Shape1(s) => blocks'[Len(blocks')] = [type |-> "h1", text |-> AfterMarker(s, 1)]
        /\ Shape2(s) => blocks'[Len(blocks')] = [type |-> "h2", text |-> AfterMarker(s, 2)]
        /\ (Len(s) >= 3 /\ s[1] = "#" /\ s[2] = "#" /\ s[3] = "#") =>
              /\ blocks' = blocks
              /\ current_paragraph_lines' = Append(current_paragraph_lines, s)]_vars

C9_Witness ==
    /\ pc = "parsed"
    /\ \E j \in 1..Len(lines) : LeadingHashes(Stripped(j)) >= 3
    /\ BlockTypes = <<"h1", "p">>
    /\ LeadingHashes(blocks[2].text) >= 3

(* C10: blocks come in the order of the input lines; each heading line is  *)
(* a block of its own and each maximal run of paragraph lines is one       *)
(* paragraph block, emitted before a heading that ends it; the accumulator *)
(* holds exactly the run still open, and is empty once parsing has ended.  *)
C10_OrderAndHeadingBoundary ==
    /\ pc = "loop" =>
         /\ blocks = UnitBlocks(UnitStarts(idx, TRUE), idx)
         /\ current_paragraph_lines = PendingLines(idx)
    /\ pc # "loop" =>
         /\ blocks = UnitBlocks(UnitStarts(Len(lines), FALSE), Len(lines))
         /\ current_paragraph_lines = <<>>

C10_Witness ==
    /\ pc = "parsed"
    /\ BlockTypes = <<"p", "h1", "p">>

-----------------------------------------------------------------------------
(* Vocabulary of the alignment and pipeline properties *)

\* the cell that shows block b
CellOf(b) == <<"<", b.type, ">">> \o b.text \o <<"</", b.type, ">">>
Present(cell) == cell # <<>>

\* row i pairs the i-th blocks, and pads the side that has no i-th block
RowAligned(i) ==
    LET m == Len(source_blocks)
        n == Len(target_blocks)
        r == rows_html[i]
    IN  /\ i <= m => r.left = CellOf(source_blocks[i])
        /\ i <= n => r.right = CellOf(target_blocks[i])
        /\ i > m => ~Present(r.left)
        /\ i > n => ~Present(r.right)
        /\ Present(r.left) \/ Present(r.right)
        /\ (i <= m /\ i <= n) => Present(r.left) /\ Present(r.right)
        /\ (i > m \/ i > n) => ~(Present(r.left) /\ Present(r.right))

Fatal == pc = "aborted"
OutputKind == IF args.html_only THEN "html" ELSE "pdf"

(* C1: generate_html produces exactly max(m, n) rows in index order; row i *)
(* holds left[i] and right[i] when both exist, and otherwise exactly the   *)
(* i-th block of the longer sequence; no row has both slots absent.        *)
C1_RowAlignment ==
    /\ \A i \in 1..Len(rows_html) : RowAligned(i)
    /\ Len(rows_html) <= Max(Len(source_blocks), Len(target_blocks))
    /\ pc = "html_done" =>
         /\ Len(rows_html) = Max(Len(source_blocks), Len(target_blocks))
         /\ html.rows = rows_html

C1_Witness ==
    /\ pc = "html_done"
    /\ Len(source_blocks) = 3
    /\ Len(target_blocks) = 1
    /\ Len(rows_html) = 3
    /\ ~Present(rows_html[3].right)
    /\ source_blocks[1] # source_blocks[2]

(* C3: without --translation, when the source or the target code is not    *)
(* supported the run ends in the unsupported-language error with no        *)
(* translate call issued and no block translated.                          *)
C3_FailFastValidation ==
    /\ error = "unsupported_language" => translate_calls = 0 /\ target_blocks = <<>>
    /\ (~args.translation /\ ({args.source, args.target} \ {"fr", "es"}) # {}) =>
         /\ translate_calls = 0
         /\ pc \in {"start", "exit0", "validate_output", "read_parse", "translate",
                    "aborted"}
         /\ (pc = "aborted" /\ source_blocks # <<>>) => error = "unsupported_language"

C3_Witness ==
    /\ pc = "aborted"
    /\ error = "unsupported_language"
    /\ args.source = "fr" /\ args.target = "xx"
    /\ Len(source_blocks) = 2

(* C4: on every run that ends in a fatal error no file has been written.   *)
C4_NoArtifactOnAbort == Fatal => files = {}

(* C5: the warning is printed exactly when the block counts differ, and    *)
(* generate_html always hands over to the output step; a run that is not   *)
(* ended by an error has written the output artifact with all the rows.    *)
C5_MismatchNonFatal ==
    /\ [](/\ pc \in {"output", "done"} =>
               warned = (Len(source_blocks) # Len(target_blocks))
          /\ pc = "done" =>
               \E f \in files : f.kind = OutputKind /\ f.content.rows = rows_html
          /\ pc = "done" =>
               Len(rows_html) = Max(Len(source_blocks), Len(target_blocks)))
    /\ [][pc = "generate_html" => pc' = "output" /\ error' = "none"]_vars

C5_Witness ==
    /\ pc = "done"
    /\ warned
    /\ Len(source_blocks) = 2 /\ Len(target_blocks) = 1
    /\ \E f \in files : f.kind = "pdf" /\ Len(f.content.rows) = 2

(* C11: translate_stub returns as many blocks as it was given; the i-th    *)
(* has the kind of the i-th input block and the input text behind one      *)
(* prefix "[<TARGET CODE IN UPPER CASE>] "; the input blocks are left as   *)
(* they were and a second call with the same arguments returns the same.   *)
StubTag == IF target_lang = "es" THEN "ES" ELSE "FR"

StubOf(b) == [type |-> b.type, text |-> <<"[", StubTag, "]", " ">> \o b.text]

C11_StubPreservesStructure ==
    /\ [](/\ Len(translated) <= Len(source_blocks)
          /\ \A i \in 1..Len(translated) : translated[i] = StubOf(source_blocks[i])
          /\ \A c \in 1..Len(results) :
               /\ Len(results[c]) = Len(source_blocks)
               /\ \A i \in 1..Len(source_blocks) :
                    results[c][i] = StubOf(source_blocks[i])
          /\ Len(results) = 2 => results[1] = results[2])
    /\ [][source_blocks' = source_blocks]_vars

C11_Witness ==
    /\ pc = "stub_returned"
    /\ Len(results) = 2
    /\ Len(source_blocks) = 3
    /\ source_blocks[1].type = "h1" /\ source_blocks[2].type = "p"
    /\ source_blocks[2].text = <<"[", "ES", "]", " ", "a">>
    /\ target_lang = "es"
    /\ results[2][2].text = <<"[", "ES", "]", " ", "[", "ES", "]", " ", "a">>

-----------------------------------------------------------------------------
(* Vocabulary of the stage properties, for the runs of both programs *)

IsFrEs == "direction" \in DOMAIN args
StubMode == IsFrEs /\ ~args.translation /\ args.stub
ExternalMode == ~args.translation /\ (IsFrEs => ~args.stub)

ParseStage == {"read_parse", "fe_read_parse"}
TranslateStage == {"translate", "translating", "fe_translate", "fe_translating"}
GenerateStage == {"generate_html", "fe_generate_html"}
OutputStage == {"output", "fe_output"}

Rank(p) ==
    IF p \in {"start", "validate_output"} THEN 0
    ELSE IF p \in ParseStage THEN 1
    ELSE IF p \in TranslateStage THEN 2
    ELSE IF p = "save_translation" THEN 3
    ELSE IF p \in GenerateStage THEN 4
    ELSE IF p \in OutputStage THEN 5
    ELSE 6

OutputArtifacts(fs) == {f \in fs : f.kind \in {"html", "pdf"}}
FullRowCount == Max(Len(source_blocks), Len(target_blocks))

(* C12: every run goes through parse, translate, align and render, output  *)
(* in this order and never back; the source blocks are set before any      *)
(* translate call or target block; target blocks are set and translate     *)
(* calls issued only while no row and no document exists; rows and         *)
(* document are built only from the finished target sequence; the output   *)
(* artifact is written only from the finished document with all its rows.  *)
C12_StageOrder ==
    [][/\ Rank(pc') >= Rank(pc)
       /\ source_blocks' # source_blocks =>
            /\ pc \in ParseStage
            /\ translate_calls = 0 /\ target_blocks = <<>>
            /\ rows_html = <<>> /\ files = {}
       /\ (translate_calls' # translate_calls \/ target_blocks' # target_blocks) =>
            /\ pc \in TranslateStage
            /\ source_blocks' = source_blocks
            /\ rows_html' = <<>> /\ html' = NoHtml
            /\ OutputArtifacts(files') = {}
       /\ (rows_html' # rows_html \/ html' # html) =>
            /\ pc \in GenerateStage
            /\ source_blocks' = source_blocks /\ target_blocks' = target_blocks
            /\ translate_calls' = translate_calls
            /\ ExternalMode => /\ Len(target_blocks) = Len(source_blocks)
                               /\ translate_calls = Len(source_blocks)
            /\ Len(rows_html') = FullRowCount
            /\ html'.rows = rows_html'
            /\ OutputArtifacts(files') = {}
       /\ OutputArtifacts(files') # OutputArtifacts(files) =>
            /\ pc \in OutputStage
            /\ html' = html /\ rows_html' = rows_html
            /\ html.rows = rows_html
            /\ Len(rows_html) = FullRowCount
            /\ \A f \in OutputArtifacts(files') : f.content = html]_vars

C12_Witness ==
    /\ pc = "done"
    /\ ExternalMode
    /\ translate_calls = 2
    /\ Len(target_blocks) = 2
    /\ Len(rows_html) = 2
    /\ \E f \in files : f.kind = "pdf" /\ Len(f.content.rows) = 2

(* C13: without --translation (external translation, stub) the target     *)
(* sequence has the length of the source sequence and the same kind at     *)
(* every index, the warning is never printed and every row has both slots  *)
(* present; so a warning or an absent slot occurs only with --translation. *)
TranslationOver ==
    \/ pc \in {"save_translation", "done"} \cup GenerateStage \cup OutputStage
    \/ pc = "aborted" /\ error = "render_failed"

C13_OnlyPretranslatedMismatch ==
    ~args.translation =>
        /\ Len(target_blocks) <= Len(source_blocks)
        /\ \A i \in 1..Len(target_blocks) : target_blocks[i].type = source_blocks[i].type
        /\ TranslationOver => Len(target_blocks) = Len(source_blocks)
        /\ ~warned
        /\ \A i \in 1..Len(rows_html) :
             Present(rows_html[i].left) /\ Present(rows_html[i].right)

C13_Witness ==
    /\ pc = "done"
    /\ StubMode
    /\ Len(source_blocks) = 2
    /\ Len(rows_html) = 2
    /\ target_blocks[1].text = <<"[", "ES", "]", " ">> \o source_blocks[1].text

====
